---- MODULE Spec2Model ----
(***************************************************************************)
(* Model of the Strava synchronisation core: main.py (the run, the        *)
(* novelty filter, the per-activity loop), src/db/db_manager.py (the      *)
(* store access, the writer, the reconciliation check) and                *)
(* src/db/queries.py (the tables and their primary keys).                 *)
(***************************************************************************)
EXTENDS Integers, Sequences, FiniteSets, TLC

(* ---------------------------------------------------------------- bounds *)
\* activity ids of the remote service: 1..MaxId
MaxId == 2
\* the longest remote listing of a run
MaxListing == 2
\* the number of invocations of main() in a behaviour
MaxRuns == 2
\* the statements of a behaviour that sqlite fails (a sqlite3.Error, or an
\* exception while binding a row)
MaxFaults == 1
\* the writer's harness: rows of a DataFrame, calls in a behaviour
MaxDf == 2
MaxCalls == 2
\* the reconciliation harness: ids 1..MaxCheckId in either table
MaxCheckId == 3
\* the streams harness: the longest series of a payload
MaxData == 1
\* the filtering harness: the most rows of a frame
MaxRows == 2

Ids == 1..MaxId

(* ------------------------------------------------------- src/db/queries.py *)
ALLOWED_TABLES ==
  {"activities", "best_efforts", "gear", "splits", "zones", "cache", "streams", "health"}

\* The primary key of a row, as CREATE_ALL_TABLES declares it per table.
PrimaryKey(table_name, row) ==
  CASE table_name = "activities"   -> <<row.id>>
    [] table_name = "best_efforts" -> <<row.id, row.name>>
    [] table_name = "gear"         -> <<row.gear_id>>
    [] table_name = "splits"       -> <<row.id>>
    [] table_name = "zones"        -> <<row.id, row.zone_type, row.min_value, row.max_value>>
    [] table_name = "streams"      -> <<row.id>>
    [] table_name = "cache"        -> <<row.id>>
    [] table_name = "health"       -> <<row.date>>

HasKey(rows, table_name, row) ==
  \E r \in rows : PrimaryKey(table_name, r) = PrimaryKey(table_name, row)

\* INSERT OR REPLACE in place of INSERT OR IGNORE
InsertOrReplace(rows, table_name, row) ==
  {r \in rows : PrimaryKey(table_name, r) # PrimaryKey(table_name, row)} \cup {row}

\* INSERT OR IGNORE INTO t ... : the row is added unless its key is stored.
INSERT_OR_IGNORE_QUERY(rows, table_name, row) ==
  IF HasKey(rows, table_name, row) THEN rows ELSE rows \cup {row}

\* a claim that empties the cache table first
InsertIdToCacheOnly(rows, activity_id) == {[id |-> activity_id]}

\* INSERT OR REPLACE INTO cache (id): a stored row of that id is deleted first.
INSERT_ID_TO_CACHE(rows, activity_id) ==
  {r \in rows : r.id # activity_id} \cup {[id |-> activity_id]}

\* SELECT id FROM t
SelectIds(rows) == {r.id : r \in rows}

(* ---------------------------------------------------- src/db/db_manager.py *)
\* What sqlite does with one statement: it executes ("ok"), it fails with a
\* sqlite3.Error ("sqlerr"), or binding the row's values raises an exception
\* that is no sqlite3.Error ("exc": OverflowError, UnicodeEncodeError).
StmtOutcomes == {"ok", "sqlerr", "exc"}
ReadOutcomes == {"ok", "sqlerr"}

\* execute_query with an INSERT OR IGNORE: a sqlite3.Error is logged and
\* swallowed and the statement has no effect.
ExecuteInsert(rows, table_name, row, outcome) ==
  IF outcome = "ok" THEN INSERT_OR_IGNORE_QUERY(rows, table_name, row) ELSE rows

\* a read that answers every id when it fails
ExecuteSelectIdsAll(rows, outcome) ==
  IF outcome = "ok" THEN SelectIds(rows) ELSE Ids

\* execute_query with a SELECT of ids: [] after a sqlite3.Error.
ExecuteSelectIds(rows, outcome) ==
  IF outcome = "ok" THEN SelectIds(rows) ELSE {}

\* an update_cache whose statement is never committed
UpdateCacheRowsLost(rows, activity_id, outcome) == rows

\* update_cache
UpdateCacheRows(rows, activity_id, outcome) ==
  IF outcome = "ok" THEN INSERT_ID_TO_CACHE(rows, activity_id) ELSE rows

validate_table(table_name) == table_name \in ALLOWED_TABLES

\* The loop of insert_dataframe_to_db from row k on: one execute_query per row;
\* an exception that execute_query does not catch ends the loop (it is caught
\* and logged by the writer's own except clause).
RECURSIVE InsertLoop(_, _, _, _, _)
InsertLoop(rows, table_name, data, res, k) ==
  IF k > Len(data) THEN rows
  ELSE IF res[k] = "exc" THEN rows
  ELSE InsertLoop(ExecuteInsert(rows, table_name, data[k], res[k]),
                  table_name, data, res, k + 1)

\* a writer that returns on an empty DataFrame before it validates the table
insert_dataframe_to_db_late(d, table_name, df, res) ==
  IF df = <<>> THEN [raised |-> FALSE, db |-> d]
  ELSE IF ~validate_table(table_name) THEN [raised |-> TRUE, db |-> d]
  ELSE [raised |-> FALSE,
        db |-> [d EXCEPT ![table_name] = InsertLoop(@, table_name, df, res, 1)]]

\* insert_dataframe_to_db on the store d: the table name is validated first
\* and a ValueError leaves the writer; then None or an empty DataFrame is a
\* no-op; then the rows are inserted one by one. The result is whether the
\* call raised, and the store after it.
insert_dataframe_to_db(d, table_name, df, res) ==
  IF ~validate_table(table_name) THEN [raised |-> TRUE, db |-> d]
  ELSE IF df = <<>> THEN [raised |-> FALSE, db |-> d]
  ELSE [raised |-> FALSE,
        db |-> [d EXCEPT ![table_name] = InsertLoop(@, table_name, df, res, 1)]]

\* the statements of a DataFrame that did not execute
Faulty(res) == Cardinality({k \in DOMAIN res : res[k] # "ok"})


(* ------------------------------------------------- src/models/streams.py *)
ALL_STREAM_TYPES ==
  <<"time", "distance", "latlng", "altitude", "velocity_smooth", "heartrate",
    "cadence", "watts">>

\* json.dumps of a list: the stored text, which json.loads turns back
JsonDumps(values) == [json |-> values]
JsonLoads(text) == text.json

\* a series that is not in the payload is serialized as it is: null
StreamValueNull(response, key) ==
  IF key \in DOMAIN response /\ "data" \in DOMAIN response[key]
    THEN JsonDumps(response[key].data)
    ELSE JsonDumps(<<>>)

\* response.get(key, {}).get("data", None), then the placeholder [0] for a
\* value that is None or empty. A response maps some of the keys to their
\* stream objects, which hold the series under "data".
StreamValue(response, key) ==
  IF key \in DOMAIN response /\ "data" \in DOMAIN response[key]
       /\ response[key].data # <<>>
    THEN JsonDumps(response[key].data)
    ELSE JsonDumps(<<0>>)

\* process_streams: a DataFrame of one row; velocity_smooth is stored as speed.
process_streams(activity_id, response) ==
  <<[id        |-> activity_id,
     time      |-> StreamValue(response, "time"),
     distance  |-> StreamValue(response, "distance"),
     latlng    |-> StreamValue(response, "latlng"),
     altitude  |-> StreamValue(response, "altitude"),
     speed     |-> StreamValue(response, "velocity_smooth"),
     heartrate |-> StreamValue(response, "heartrate"),
     cadence   |-> StreamValue(response, "cadence"),
     watts     |-> StreamValue(response, "watts")]>>

StreamKeys == {ALL_STREAM_TYPES[k] : k \in 1..Len(ALL_STREAM_TYPES)}

\* the remote's answer to a streams request of a run: every series but
\* heartrate
StreamResponses ==
  {[key \in StreamKeys \ {"heartrate"} |-> [data |-> <<1>>]]}

\* get_streams: the request raises, answers nothing, or answers a response;
\* the first two give an empty DataFrame.
StreamOutcomes ==
  {[kind |-> "raise", response |-> <<>>], [kind |-> "empty", response |-> <<>>]}
    \cup {[kind |-> "ok", response |-> r] : r \in StreamResponses}

get_streams(activity_id, outcome) ==
  IF outcome.kind = "ok" THEN process_streams(activity_id, outcome.response)
  ELSE <<>>

(* ------------------------------------------------ the remote collaborator *)
\* get_activities: nothing (None or []), a payload whose DataFrame is empty
\* ([{}]), or activity summaries; `name` is the remote's value at that run
Listings(name) ==
  UNION {[1..n -> [id : Ids, name : {name}]] : n \in 1..MaxListing}

ListingAnswers(name) ==
  {[kind |-> "nothing", rows |-> <<>>], [kind |-> "blank", rows |-> <<>>]}
    \cup {[kind |-> "rows", rows |-> l] : l \in Listings(name)}

\* get_detailed_activity: raises, answers nothing, or answers a payload with
\* its embedded best_efforts
NoDetail == [kind |-> "empty", best_efforts |-> <<>>]

DetailOutcomes ==
  {[kind |-> "raise", best_efforts |-> <<>>], NoDetail,
   [kind |-> "ok", best_efforts |-> <<"1k">>]}

\* get_activity_zones: raises, answers nothing, or answers zone types
ZonesOutcomes ==
  {[kind |-> "raise", types |-> <<>>], [kind |-> "empty", types |-> <<>>],
   [kind |-> "ok", types |-> <<>>], [kind |-> "ok", types |-> <<"heartrate">>]}

\* Gear.process_gears: the gear request raises, or gives the gear rows with
\* the distance the gear has at that run
GearOutcomes(distance) ==
  {[kind |-> "raise", rows |-> <<>>],
   [kind |-> "ok", rows |-> <<[gear_id |-> "g1", distance |-> distance]>>]}

(* ------------------------------------------------------- the normalizers *)
\* Activity.process_activity_data: one row per listed activity, in order
process_activity_data(rows) == rows

\* Splits.process_splits: one row per activity
process_splits(activity_id, laps) == <<[id |-> activity_id, laps |-> laps]>>

\* Zones.process_zones: one row per zone type and band; no type, no row
process_zones(outcome, activity_id, time_in_zone) ==
  [k \in 1..Len(outcome.types) |->
     [id |-> activity_id, zone_type |-> outcome.types[k], min_value |-> 0,
      max_value |-> 100, time_in_zone |-> time_in_zone]]

\* BestEfforts.process_best_efforts: one row per named effort
process_best_efforts(activity_id, best_efforts_data, time) ==
  [k \in 1..Len(best_efforts_data) |->
     [id |-> activity_id, name |-> best_efforts_data[k], time |-> time]]

(* ------------------------------------------------------------- main.py *)
\* a filter whose mask lost its negation: the cached rows are kept
RECURSIVE NoveltyFilterInverted(_, _)
NoveltyFilterInverted(df, cached) ==
  IF df = <<>> THEN <<>>
  ELSE (IF Head(df).id \in cached THEN <<Head(df)>> ELSE <<>>)
         \o NoveltyFilterInverted(Tail(df), cached)

\* a filter that keeps every listed row
NoveltyFilterAll(df, cached) == df

\* activities_df[~activities_df["id"].isin(cached_ids)]: the mask is computed
\* row by row and the rows whose mask is true are kept, in order.
RECURSIVE NoveltyFilter(_, _)
NoveltyFilter(df, cached) ==
  IF df = <<>> THEN <<>>
  ELSE (IF Head(df).id \in cached THEN <<>> ELSE <<Head(df)>>)
         \o NoveltyFilter(Tail(df), cached)

\* new_activities_df["id"].tolist()
IdList(df) == [k \in 1..Len(df) |-> df[k].id]

Range(seq) == {seq[k] : k \in 1..Len(seq)}

\* the entries of a listing that have the id x
Entries(df, x) == Cardinality({k \in 1..Len(df) : df[k].id = x})

(* --------------------------------------------------------------- state *)
VARIABLES
  db,                \* the store: table name -> the set of its rows
  pc,                \* where main() stands; "idle" before the first run,
                     \* "done" once it has returned, "raised" once it has
                     \* let an exception out to its caller
  run,               \* invocations of main() so far
  faults,            \* statements that sqlite failed so far
  activities_df,     \* main: the normalized listing
  cached_ids,        \* main: what get_ids_from_cache returned
  new_activities_df, \* main: the rows of the new activities
  new_activity_ids,  \* main: their ids
  i,                 \* process_new_activities: position in new_activity_ids
  detailed_activity, \* process_new_activities: the detail payload
  splits_df, zones_df, best_efforts_df, streams_df,
                     \* process_individual_activity: the normalized rows
  \* what an observer of the run records
  fetched,           \* remote requests issued in this run: <<kind, id>>
  written,           \* rows added in this run: <<table, id>>
  claimed,           \* ids whose update_cache statement executed in this run
  claimRes,          \* how the update_cache statement of the current id ended
  claimFailed,       \* ids whose update_cache statement failed in this run
  detailOk,          \* ids with a detail payload in this run
  detailFailed,      \* ids with a failed or empty detail fetch in this run
  detailEmpty,       \* ids whose detail request answered nothing in this run
  answers,           \* what the zones and streams requests of this run were
                     \* answered: <<kind, id, answer>>
  fetchFailed,       \* zones and streams requests of this run that raised:
                     \* <<kind, id>>
  checks,            \* calls of the reconciliation check in this run
  lastStore,         \* the last store access of this run
  raisedAt,          \* the step of main whose exception was caught
  cacheAtStart,      \* the ids of the cache table when the run began
  cacheRead,         \* how the cache read of this run ended
  warning,           \* what the last reconciliation check logged
  checkReads,        \* how its two reads ended
  wcall,             \* the writer's harness: the last call and its effect
  sinput,            \* the streams harness: the last call of process_streams
  fcall,             \* the filtering harness: the last call of
                     \* filter_by_time_period and what it returned
  dcall,             \* the maintenance harness: the last call of
                     \* delete_last_activity and the store before it
  qcall,             \* the query harness: the last call of execute_query,
                     \* the store before it and what it returned
  past               \* what an observer keeps across runs: the previous run's
                     \* listing, the row counts it left and where it raised;
                     \* the ids listed, the ids whose detail was requested
                     \* and the ids with a failed update_cache statement, in
                     \* any run so far; per id, the most entries it had in
                     \* one listing and the detail requests issued for it;
                     \* the failed statements, and the ids of activities
                     \* minus cache, when the current run began

mainVars == <<activities_df, cached_ids, new_activities_df, new_activity_ids>>
loopVars == <<i, detailed_activity, splits_df, zones_df, best_efforts_df, streams_df>>
histVars == <<fetched, written, claimed, claimRes, claimFailed, fetchFailed, answers,
              detailEmpty, detailOk, detailFailed, checks,
              lastStore, raisedAt, cacheAtStart, cacheRead, warning, checkReads>>
vars == <<db, pc, run, faults, mainVars, loopVars, histVars, wcall, past, sinput, fcall, dcall, qcall>>

NoWarning == [emitted |-> FALSE, ids |-> {}, count |-> 0]
NoCall == [calls |-> 0, table_name |-> "", df |-> <<>>, res |-> <<>>,
           raised |-> FALSE, before |-> {}]

NoStreamsCall == [calls |-> 0, activity_id |-> 0, response |-> <<>>]
NoFilterCall == [calls |-> 0, df |-> <<>>, years |-> {}, months |-> {}, weekdays |-> {},
                 inplace |-> FALSE, raised |-> FALSE, dtype |-> "object", rows |-> <<>>]

EmptyDb == [t \in ALLOWED_TABLES |-> {}]
NoDeleteCall == [calls |-> 0, table_names |-> <<>>, res |-> <<>>, raised |-> FALSE,
                 before |-> EmptyDb]
NoQueryCall == [calls |-> 0, query |-> [kind |-> "none", table_name |-> "", id |-> 0],
                outcome |-> "ok", returned |-> {}, raised |-> FALSE, before |-> EmptyDb]

\* SELECT COUNT(*) of every table
RowCounts(d) == [t \in ALLOWED_TABLES |-> Cardinality(d[t])]

NoPast == [listing |-> <<>>, counts |-> RowCounts(EmptyDb), raisedAt |-> "none",
           listed |-> {}, detail |-> {}, claimLost |-> {},
           entries |-> [x \in Ids |-> 0], fetches |-> [x \in Ids |-> 0],
           faults |-> 0, missing |-> {}]

\* the outcomes of the statements of one DataFrame, and of one statement, that
\* the environment can still produce
Results(df) == {res \in [1..Len(df) -> StmtOutcomes] : faults + Faulty(res) <= MaxFaults}
ReadResults == {o \in ReadOutcomes : o = "ok" \/ faults < MaxFaults}
Fault(outcome) == IF outcome = "ok" THEN 0 ELSE 1

InitLocals ==
  /\ activities_df = <<>>
  /\ cached_ids = {}
  /\ new_activities_df = <<>>
  /\ new_activity_ids = <<>>
  /\ i = 0
  /\ detailed_activity = NoDetail
  /\ splits_df = <<>>
  /\ zones_df = <<>>
  /\ best_efforts_df = <<>>
  /\ streams_df = <<>>
  /\ fetched = {}
  /\ written = {}
  /\ claimed = {}
  /\ claimRes = "none"
  /\ claimFailed = {}
  /\ detailOk = {}
  /\ detailFailed = {}
  /\ detailEmpty = {}
  /\ fetchFailed = {}
  /\ answers = {}
  /\ checks = 0
  /\ lastStore = "none"
  /\ raisedAt = "none"
  /\ cacheAtStart = {}
  /\ cacheRead = "none"
  /\ warning = NoWarning
  /\ checkReads = <<"none", "none">>
  /\ wcall = NoCall
  /\ sinput = NoStreamsCall
  /\ fcall = NoFilterCall
  /\ dcall = NoDeleteCall
  /\ qcall = NoQueryCall
  /\ past = NoPast
  /\ faults = 0
  /\ run = 0

\* create_all_tables on a new database file
Init ==
  /\ db = EmptyDb
  /\ pc = "idle"
  /\ InitLocals

\* the ids of the rows that a statement added to a table
Added(table_name, before, after) ==
  {<<table_name, r.id>> : r \in after \ before}

\* a main without its except clause: the exception leaves main
MainExceptPropagates(site) ==
  /\ raisedAt' = site
  /\ pc' = "raised"

\* main's except clause: the exception is logged, the finally clause follows
MainExcept(site) ==
  /\ raisedAt' = site
  /\ pc' = "check"

\* process_individual_activity has returned: the for statement of
\* process_new_activities goes to the next id, or ends and process_gear_data
\* follows
LoopNext ==
  /\ IF i < Len(new_activity_ids)
       THEN i' = i + 1 /\ pc' = "update_cache"
       ELSE i' = i /\ pc' = "process_gear_data"
  /\ detailed_activity' = NoDetail
  /\ splits_df' = <<>>
  /\ zones_df' = <<>>
  /\ best_efforts_df' = <<>>
  /\ streams_df' = <<>>

\* a loop that takes the new ids from the last to the first
CurIdReversed == new_activity_ids[Len(new_activity_ids) - i + 1]

\* process_new_activities, line 106: `for activity_id in new_activity_ids`
CurId == new_activity_ids[i]

\* a loop body without its test of the payload
HasPayloadAlways(outcome) == TRUE

\* process_new_activities, line 113: `if not detailed_activity`
HasPayload(outcome) == outcome.kind = "ok"

\* a loop that a failed activity ends: the ids after it are left alone
ActivityFailedBreaks ==
  /\ i' = i
  /\ pc' = "process_gear_data"
  /\ detailed_activity' = NoDetail
  /\ splits_df' = <<>>
  /\ zones_df' = <<>>
  /\ best_efforts_df' = <<>>
  /\ streams_df' = <<>>

\* process_new_activities, lines 113-115 and 120-121, and
\* process_individual_activity, lines 144-145: the activity without a payload
\* is skipped with `continue`, an exception is caught and logged; in both
\* cases the for statement goes on
ActivityFailed == LoopNext

\* a main that goes to the gear sync when the listing gave nothing
AfterListingToGear(kind) ==
  CASE kind = "nothing" -> "process_gear_data"
    [] kind = "blank"   -> "check"
    [] OTHER            -> "process_activity_data"

\* main, lines 32-43: where main goes after the listing
AfterListing(kind) ==
  CASE kind = "nothing" -> "done"
    [] kind = "blank"   -> "check"
    [] OTHER            -> "process_activity_data"

\* main, lines 28-43: the listing; nothing ends the run, an empty DataFrame
\* goes to the reconciliation check and ends the run.
GetActivities ==
  /\ pc \in {"idle", "done", "raised"}
  /\ run < MaxRuns
  /\ run' = run + 1
  /\ \E answer \in ListingAnswers(run') :
       /\ pc' = AfterListing(answer.kind)
       /\ activities_df' = answer.rows
       /\ past' = [listing  |-> IdList(activities_df),
                   counts   |-> RowCounts(db),
                   raisedAt |-> raisedAt,
                   listed   |-> past.listed \cup {r.id : r \in Range(answer.rows)},
                   detail   |-> past.detail,
                   claimLost |-> past.claimLost,
                   entries  |-> [x \in Ids |->
                                  IF Entries(answer.rows, x) > past.entries[x]
                                    THEN Entries(answer.rows, x)
                                    ELSE past.entries[x]],
                   fetches  |-> past.fetches,
                   faults   |-> faults,
                   missing  |-> SelectIds(db["activities"]) \ SelectIds(db["cache"])]
  /\ cached_ids' = {}
  /\ new_activities_df' = <<>>
  /\ new_activity_ids' = <<>>
  /\ i' = 0
  /\ fetched' = {}
  /\ written' = {}
  /\ claimed' = {}
  /\ claimRes' = "none"
  /\ claimFailed' = {}
  /\ fetchFailed' = {}
  /\ answers' = {}
  /\ detailEmpty' = {}
  /\ detailOk' = {}
  /\ detailFailed' = {}
  /\ checks' = 0
  /\ lastStore' = "none"
  /\ raisedAt' = "none"
  /\ cacheAtStart' = SelectIds(db["cache"])
  /\ cacheRead' = "none"
  /\ warning' = NoWarning
  /\ checkReads' = <<"none", "none">>
  /\ UNCHANGED <<db, faults, detailed_activity, splits_df, zones_df,
                 best_efforts_df, streams_df, wcall, sinput, fcall, dcall, qcall>>

\* main, line 49: Activity.process_activity_data
ProcessActivityData ==
  /\ pc = "process_activity_data"
  /\ \E raises \in BOOLEAN :
       IF raises
         THEN /\ MainExcept("process_activity_data")
              /\ UNCHANGED activities_df
         ELSE /\ activities_df' = process_activity_data(activities_df)
              /\ pc' = "get_ids_from_cache"
              /\ UNCHANGED raisedAt
  /\ UNCHANGED <<db, run, faults, cached_ids, new_activities_df, new_activity_ids,
                 loopVars, fetched, written, claimed, claimRes, detailOk,
                 detailFailed, checks, lastStore, cacheAtStart, cacheRead, warning,
                 checkReads, wcall, sinput, fcall, dcall, qcall, past, claimFailed, fetchFailed, detailEmpty, answers>>

\* a main whose gear sync is outside the test of the new ids
AfterFilterGearAlways(ids) ==
  IF ids # <<>> THEN "insert_activities" ELSE "process_gear_data"

\* main, lines 61-68: `if new_activity_ids:` guards process_new_activities and
\* process_gear_data
AfterFilter(ids) ==
  IF ids # <<>> THEN "insert_activities" ELSE "check"

\* main, lines 52-68: the cache read and the novelty filter
FilterNewActivities ==
  /\ pc = "get_ids_from_cache"
  /\ \E outcome \in ReadResults :
       /\ cached_ids' = ExecuteSelectIds(db["cache"], outcome)
       /\ cacheRead' = outcome
       /\ faults' = faults + Fault(outcome)
  /\ new_activities_df' = NoveltyFilter(activities_df, cached_ids')
  /\ new_activity_ids' = IdList(new_activities_df')
  /\ pc' = AfterFilter(new_activity_ids')
  /\ lastStore' = "get_ids_from_cache"
  /\ UNCHANGED <<db, run, activities_df, loopVars, fetched, written, claimed,
                 claimRes, detailOk, detailFailed, checks, raisedAt, cacheAtStart,
                 warning, checkReads, wcall, sinput, fcall, dcall, qcall, past, claimFailed, fetchFailed, detailEmpty, answers>>

\* process_new_activities, line 105: the rows of the new activities
InsertActivities ==
  /\ pc = "insert_activities"
  /\ \E res \in Results(new_activities_df) :
       /\ db' = insert_dataframe_to_db(db, "activities", new_activities_df, res).db
       /\ faults' = faults + Faulty(res)
  /\ written' = written \cup Added("activities", db["activities"], db'["activities"])
  /\ lastStore' = "insert_dataframe_to_db"
  /\ i' = 1
  /\ pc' = "update_cache"
  /\ UNCHANGED <<run, mainVars, detailed_activity, splits_df, zones_df,
                 best_efforts_df, streams_df, fetched, claimed, claimRes, detailOk,
                 detailFailed, checks, raisedAt, cacheAtStart, cacheRead, warning,
                 checkReads, wcall, sinput, fcall, dcall, qcall, past, claimFailed, fetchFailed, detailEmpty, answers>>

\* process_new_activities, line 107: the claim
UpdateCache ==
  /\ pc = "update_cache"
  /\ \E outcome \in ReadResults :
       /\ db' = [db EXCEPT !["cache"] = UpdateCacheRows(@, CurId, outcome)]
       /\ claimRes' = outcome
       /\ faults' = faults + Fault(outcome)
       /\ claimed' = IF outcome = "ok" THEN claimed \cup {CurId} ELSE claimed
       /\ claimFailed' = IF outcome = "ok" THEN claimFailed
                         ELSE claimFailed \cup {CurId}
       /\ past' = IF outcome = "ok" THEN past
                  ELSE [past EXCEPT !.claimLost = @ \cup {CurId}]
       /\ written' = IF outcome = "ok" THEN written \cup {<<"cache", CurId>>}
                     ELSE written
  /\ lastStore' = "update_cache"
  /\ pc' = "get_detailed_activity"
  /\ UNCHANGED <<run, mainVars, loopVars, fetched, detailOk, detailFailed, checks,
                 raisedAt, cacheAtStart, cacheRead, warning, checkReads, wcall, sinput, fcall, dcall, qcall,
                 fetchFailed, detailEmpty, answers>>

\* process_new_activities, lines 109-121, and process_individual_activity,
\* lines 126-127: the detail fetch; no payload, or an exception, ends this id
GetDetailedActivity ==
  /\ pc = "get_detailed_activity"
  /\ fetched' = fetched \cup {<<"detail", CurId>>}
  /\ past' = [past EXCEPT !.detail = @ \cup {CurId}, !.fetches[CurId] = @ + 1]
  /\ \E outcome \in DetailOutcomes :
       /\ detailOk' = IF outcome.kind = "ok" THEN detailOk \cup {CurId} ELSE detailOk
       /\ detailFailed' = IF outcome.kind = "ok" THEN detailFailed
                          ELSE detailFailed \cup {CurId}
       /\ detailEmpty' = IF outcome.kind = "empty" THEN detailEmpty \cup {CurId}
                         ELSE detailEmpty
       /\ IF outcome.kind # "raise" /\ HasPayload(outcome)
            THEN /\ detailed_activity' = outcome
                 /\ splits_df' = process_splits(CurId, run)
                 /\ pc' = "get_activity_zones"
                 /\ UNCHANGED <<i, zones_df, best_efforts_df, streams_df, claimRes>>
            ELSE /\ ActivityFailed
                 /\ claimRes' = "none"
  /\ UNCHANGED <<db, run, faults, mainVars, written, claimed, claimFailed,
                 fetchFailed, checks, lastStore, raisedAt, cacheAtStart, cacheRead,
                 warning, checkReads, wcall, sinput, fcall, dcall, qcall, answers>>

\* process_individual_activity, lines 128-133: the zones fetch, whose exception
\* ends this id (line 144), then the zones and best-efforts rows
GetActivityZones ==
  /\ pc = "get_activity_zones"
  /\ fetched' = fetched \cup {<<"zones", CurId>>}
  /\ \E outcome \in ZonesOutcomes :
       /\ answers' = answers \cup {<<"zones", CurId, outcome>>}
       /\ IF outcome.kind = "raise"
            THEN /\ ActivityFailed
                 /\ claimRes' = "none"
                 /\ fetchFailed' = fetchFailed \cup {<<"zones", CurId>>}
            ELSE /\ zones_df' = process_zones(outcome, CurId, run)
                 /\ best_efforts_df' =
                      process_best_efforts(CurId, detailed_activity.best_efforts, run)
                 /\ pc' = "get_streams"
                 /\ UNCHANGED <<i, detailed_activity, splits_df, streams_df, claimRes,
                                fetchFailed>>
  /\ UNCHANGED <<db, run, faults, mainVars, written, claimed, detailOk,
                 detailFailed, checks, lastStore, raisedAt, cacheAtStart, cacheRead,
                 warning, checkReads, wcall, sinput, fcall, dcall, qcall, past, claimFailed, detailEmpty>>

\* process_individual_activity, line 134: Streams.get_streams
GetStreams ==
  /\ pc = "get_streams"
  /\ fetched' = fetched \cup {<<"streams", CurId>>}
  /\ \E outcome \in StreamOutcomes :
       /\ streams_df' = get_streams(CurId, outcome)
       /\ answers' = answers \cup {<<"streams", CurId, outcome>>}
       /\ fetchFailed' = IF outcome.kind = "raise"
                           THEN fetchFailed \cup {<<"streams", CurId>>}
                           ELSE fetchFailed
  /\ pc' = "insert_processed_data"
  /\ UNCHANGED <<db, run, faults, mainVars, i, detailed_activity, splits_df,
                 zones_df, best_efforts_df, written, claimed, claimRes, detailOk,
                 detailFailed, checks, lastStore, raisedAt, cacheAtStart, cacheRead,
                 warning, checkReads, wcall, sinput, fcall, dcall, qcall, past, claimFailed, detailEmpty>>

\* process_individual_activity, lines 139-142: the four inserts
InsertProcessedData ==
  /\ pc = "insert_processed_data"
  /\ \E r1 \in Results(splits_df), r2 \in Results(zones_df),
        r3 \in Results(best_efforts_df), r4 \in Results(streams_df) :
       /\ faults + Faulty(r1) + Faulty(r2) + Faulty(r3) + Faulty(r4) <= MaxFaults
       /\ faults' = faults + Faulty(r1) + Faulty(r2) + Faulty(r3) + Faulty(r4)
       /\ LET d1 == insert_dataframe_to_db(db, "splits", splits_df, r1).db
              d2 == insert_dataframe_to_db(d1, "zones", zones_df, r2).db
              d3 == insert_dataframe_to_db(d2, "best_efforts", best_efforts_df, r3).db
          IN db' = insert_dataframe_to_db(d3, "streams", streams_df, r4).db
  /\ written' = written
       \cup Added("splits", db["splits"], db'["splits"])
       \cup Added("zones", db["zones"], db'["zones"])
       \cup Added("best_efforts", db["best_efforts"], db'["best_efforts"])
       \cup Added("streams", db["streams"], db'["streams"])
  /\ lastStore' = "insert_dataframe_to_db"
  /\ LoopNext
  /\ claimRes' = "none"
  /\ UNCHANGED <<run, mainVars, fetched, claimed, detailOk, detailFailed, checks,
                 raisedAt, cacheAtStart, cacheRead, warning, checkReads, wcall, sinput, fcall, dcall, qcall, past,
                 claimFailed, fetchFailed, detailEmpty, answers>>

\* process_gear_data, lines 93-101: the gear ids, the gear fetch, whose
\* exception main catches, and the insert of the gear rows
ProcessGearData ==
  /\ pc = "process_gear_data"
  /\ fetched' = fetched \cup {<<"gear", 0>>}
  /\ \E outcome \in GearOutcomes(run) :
       IF outcome.kind = "raise"
         THEN /\ MainExcept("process_gear_data")
              /\ lastStore' = "get_gear_ids"
              /\ UNCHANGED <<db, faults>>
         ELSE /\ \E res \in Results(outcome.rows) :
                   /\ db' = insert_dataframe_to_db(db, "gear", outcome.rows, res).db
                   /\ faults' = faults + Faulty(res)
              /\ lastStore' = "insert_dataframe_to_db"
              /\ pc' = "check"
              /\ UNCHANGED raisedAt
  /\ UNCHANGED <<run, mainVars, loopVars, written, claimed, claimRes, detailOk,
                 detailFailed, checks, cacheAtStart, cacheRead, warning, checkReads,
                 wcall, sinput, fcall, dcall, qcall, past, claimFailed, fetchFailed, detailEmpty, answers>>

\* a check that lists the cached ids that have no activities row
missing_cache_swapped(activities_ids, cached) ==
  {item \in cached : item \notin activities_ids}

\* check_strava_database_discrepancies, lines 107-116, called at lines 42 and
\* 74 of main, which returns after it
missing_cache(activities_ids, cached) == {item \in activities_ids : item \notin cached}

\* a check that repairs what it finds: the missing ids are added to the cache
CheckSelfHealing ==
  /\ pc = "check"
  /\ \E ra \in ReadResults, rc \in ReadResults :
       LET missing == {item \in ExecuteSelectIds(db["activities"], ra) :
                         item \notin ExecuteSelectIds(db["cache"], rc)}
       IN /\ faults + Fault(ra) + Fault(rc) <= MaxFaults
          /\ faults' = faults + Fault(ra) + Fault(rc)
          /\ warning' = [emitted |-> missing # {}, ids |-> missing,
                         count |-> Cardinality(missing)]
          /\ checkReads' = <<ra, rc>>
          /\ db' = [db EXCEPT !["cache"] = @ \cup {[id |-> x] : x \in missing}]
  /\ checks' = checks + 1
  /\ lastStore' = "check"
  /\ pc' = "done"
  /\ UNCHANGED <<run, mainVars, loopVars, fetched, written, claimed, claimRes,
                 detailOk, detailFailed, raisedAt, cacheAtStart, cacheRead, wcall, sinput, fcall, dcall, qcall, past,
                 claimFailed, fetchFailed, detailEmpty, answers>>

CheckStravaDatabaseDiscrepancies ==
  /\ pc = "check"
  /\ \E ra \in ReadResults, rc \in ReadResults :
       LET missing == missing_cache(ExecuteSelectIds(db["activities"], ra),
                                    ExecuteSelectIds(db["cache"], rc))
       IN /\ faults + Fault(ra) + Fault(rc) <= MaxFaults
          /\ faults' = faults + Fault(ra) + Fault(rc)
          /\ warning' = [emitted |-> missing # {}, ids |-> missing,
                         count |-> Cardinality(missing)]
          /\ checkReads' = <<ra, rc>>
  /\ checks' = checks + 1
  /\ lastStore' = "check"
  /\ pc' = "done"
  /\ UNCHANGED <<db, run, mainVars, loopVars, fetched, written, claimed, claimRes,
                 detailOk, detailFailed, raisedAt, cacheAtStart, cacheRead, wcall, sinput, fcall, dcall, qcall, past,
                 claimFailed, fetchFailed, detailEmpty, answers>>

Next ==
  \/ GetActivities
  \/ ProcessActivityData
  \/ FilterNewActivities
  \/ InsertActivities
  \/ UpdateCache
  \/ GetDetailedActivity
  \/ GetActivityZones
  \/ GetStreams
  \/ InsertProcessedData
  \/ ProcessGearData
  \/ CheckStravaDatabaseDiscrepancies

Spec == Init /\ [][Next]_vars

(* ------------------------------------------- the writer, called by a client *)
\* the values of a column that is no key
HarnessVals == {0, 1}

\* the table names a client passes: the allowed ones and one that is not
WriterTables == ALLOWED_TABLES \cup {"users"}

\* rows of a DataFrame for a table
HarnessRows(table_name) ==
  CASE table_name = "zones" ->
         {[id |-> 1, zone_type |-> z, min_value |-> 0, max_value |-> 100,
           time_in_zone |-> v] : z \in {"heartrate", "power"}, v \in HarnessVals}
    [] table_name = "best_efforts" ->
         {[id |-> 1, name |-> n, time |-> v] : n \in {"1k", "5k"}, v \in HarnessVals}
    [] table_name = "gear" -> {[gear_id |-> "g1", distance |-> v] : v \in HarnessVals}
    [] table_name = "health" -> {[date |-> "d1", step_count |-> v] : v \in HarnessVals}
    [] table_name = "cache" -> {[id |-> x] : x \in Ids}
    [] table_name = "splits" -> {[id |-> 1, laps |-> v] : v \in HarnessVals}
    [] table_name = "streams" -> {[id |-> 1, watts |-> v] : v \in HarnessVals}
    [] OTHER -> {[id |-> 1, name |-> v] : v \in HarnessVals}

HarnessDfs(table_name) ==
  UNION {[1..n -> HarnessRows(table_name)] : n \in 0..MaxDf}

InitWriter ==
  /\ db = EmptyDb
  /\ pc = "writer"
  /\ InitLocals

\* a client calls insert_dataframe_to_db(df, table_name)
InsertDataframeToDb ==
  /\ pc = "writer"
  /\ wcall.calls < MaxCalls
  /\ \E table_name \in WriterTables :
       \E df \in HarnessDfs(table_name) :
         \E res \in Results(df) :
           LET call == insert_dataframe_to_db(db, table_name, df, res)
           IN /\ db' = call.db
              /\ faults' = faults + (IF call.raised THEN 0 ELSE Faulty(res))
              /\ wcall' = [calls |-> wcall.calls + 1, table_name |-> table_name,
                           df |-> df, res |-> res, raised |-> call.raised,
                           before |-> IF table_name \in DOMAIN db
                                        THEN db[table_name] ELSE {}]
  /\ UNCHANGED <<pc, run, mainVars, loopVars, histVars, past, sinput, fcall, dcall, qcall>>

NextWriter == InsertDataframeToDb

SpecWriter == InitWriter /\ [][NextWriter]_vars

(* ------------------------------- the reconciliation check on a given store *)
CheckIds == 1..MaxCheckId

InitCheck ==
  /\ \E A \in SUBSET CheckIds, C \in SUBSET CheckIds :
       db = [EmptyDb EXCEPT !["activities"] = {[id |-> x, name |-> 0] : x \in A},
                            !["cache"] = {[id |-> x] : x \in C}]
  /\ pc = "check"
  /\ InitLocals

NextCheck == CheckStravaDatabaseDiscrepancies

SpecCheck == InitCheck /\ [][NextCheck]_vars

(* ------------------------------------------ process_streams on any payload *)
\* a series of n samples
Series(n) == [k \in 1..n |-> k]

\* the stream object of a key: without "data", or with a series, empty or not
StreamObjects ==
  {[series_type |-> "distance"]}
    \cup {[series_type |-> "distance", data |-> Series(n)] : n \in 0..MaxData}

\* the payloads: any of the keys, each with a stream object; none at all is
\* the empty payload
HarnessResponses == UNION {[S -> StreamObjects] : S \in SUBSET StreamKeys}

InitStreams ==
  /\ db = EmptyDb
  /\ pc = "streams"
  /\ InitLocals

\* a client calls Streams.process_streams(activity_id, response), once
ProcessStreams ==
  /\ pc = "streams"
  /\ sinput.calls = 0
  /\ \E activity_id \in Ids, response \in HarnessResponses :
       /\ streams_df' = process_streams(activity_id, response)
       /\ sinput' = [calls |-> 1, activity_id |-> activity_id, response |-> response]
  /\ UNCHANGED <<db, pc, run, faults, mainVars, i, detailed_activity, splits_df,
                 zones_df, best_efforts_df, histVars, wcall, past, fcall, dcall, qcall>>

NextStreams == ProcessStreams

SpecStreams == InitStreams /\ [][NextStreams]_vars

(* ------------------------------------ filter_by_time_period on any frame *)
\* src/analysis/constants.py
ALL_MONTHS == <<"Jan", "Feb", "Mar", "Apr", "May", "Jun",
                "Jul", "Aug", "Sep", "Oct", "Nov", "Dec">>

\* The date column holds ISO texts, "YYYY-MM-DD": a text is the sequence of
\* its characters.
DigitChars == <<"0", "1", "2", "3", "4", "5", "6", "7", "8", "9">>
Digit(c) == CHOOSE d \in 0..9 : DigitChars[d + 1] = c

\* int() of a text of digits
RECURSIVE AsInt(_)
AsInt(text) ==
  IF text = <<>> THEN 0
  ELSE 10 * AsInt(SubSeq(text, 1, Len(text) - 1)) + Digit(text[Len(text)])

\* filtered["date"].str[:4].astype(int)
YearOf(date) == AsInt(SubSeq(date, 1, 4))

\* pd.to_datetime(..., format="%Y-%m-%d"): the calendar date of the text
ToDatetime(date) ==
  [year |-> AsInt(SubSeq(date, 1, 4)), month |-> AsInt(SubSeq(date, 6, 7)),
   day |-> AsInt(SubSeq(date, 9, 10))]

\* .dt.strftime("%b")
MonthAbbr(date) == ALL_MONTHS[ToDatetime(date).month]

\* .dt.strftime("%a"): the day of the week of a Gregorian date
MonthOffsets == <<0, 3, 2, 5, 0, 3, 5, 1, 4, 6, 2, 4>>
WeekdayNames == <<"Sun", "Mon", "Tue", "Wed", "Thu", "Fri", "Sat">>
DayOfWeekAbbr(date) ==
  LET t == ToDatetime(date)
      y == IF t.month < 3 THEN t.year - 1 ELSE t.year
  IN WeekdayNames[((y + (y \div 4) - (y \div 100) + (y \div 400)
                      + MonthOffsets[t.month] + t.day) % 7) + 1]

\* the frame after the year filter, lines 81-101: the requested years that
\* no row has are dropped from the request, and the rows are filtered only
\* if a requested year is left
FilterYears(filtered, years) ==
  IF years # {}
    THEN LET available_years == {YearOf(filtered[k].date) : k \in DOMAIN filtered}
             kept == years \cap available_years
         IN IF kept # {}
              THEN SelectSeq(filtered, LAMBDA r : YearOf(r.date) \in kept)
              ELSE filtered
    ELSE filtered

\* lines 125-133: the requested months that are no month abbreviation are
\* dropped from the request
FilterMonths(filtered, months) ==
  IF months # {}
    THEN LET kept == months \cap Range(ALL_MONTHS)
         IN IF kept # {}
              THEN SelectSeq(filtered, LAMBDA r : MonthAbbr(r.date) \in kept)
              ELSE filtered
    ELSE filtered

\* lines 139-149: the requested weekdays that no remaining row has are
\* dropped from the request
FilterWeekdays(filtered, weekdays) ==
  IF weekdays # {}
    THEN LET available_weekdays ==
               {DayOfWeekAbbr(filtered[k].date) : k \in DOMAIN filtered}
             kept == weekdays \cap available_weekdays
         IN IF kept # {}
              THEN SelectSeq(filtered, LAMBDA r : DayOfWeekAbbr(r.date) \in kept)
              ELSE filtered
    ELSE filtered

FilteringError == [raised |-> TRUE, dtype |-> "object", rows |-> <<>>]

\* filter_by_time_period(df, years, months, weekdays). The lists are given as
\* the sets of their elements, None and [] as the empty set. The result is
\* the frame returned (the rows with their index labels, and the dtype of the
\* date column) or the FilteringError raised. inplace tells what
\* filtered.loc[:, "date"] = <datetimes> does in the installed pandas: it
\* replaces the column (pandas 1.x), or it writes the values into the object
\* column, which then has no .dt accessor (pandas 2.x), and the
\* AttributeError of line 126 or 140 is re-raised as a FilteringError.
filter_by_time_period(df, years, months, weekdays, inplace) ==
  IF df = <<>> THEN FilteringError
  ELSE LET byYear == FilterYears(df, years)
       IN IF months # {} \/ weekdays # {}
            THEN IF inplace THEN FilteringError
                 ELSE [raised |-> FALSE, dtype |-> "datetime64[ns]",
                       rows |-> FilterWeekdays(FilterMonths(byYear, months), weekdays)]
            ELSE [raised |-> FALSE, dtype |-> "object", rows |-> byYear]

\* the ISO text of a date
TwoDigits(n) == <<DigitChars[(n \div 10) + 1], DigitChars[(n % 10) + 1]>>
Iso(y, m, d) ==
  TwoDigits(y \div 100) \o TwoDigits(y % 100) \o <<"-">> \o TwoDigits(m)
    \o <<"-">> \o TwoDigits(d)

\* a Saturday and a Sunday of 2023, a Monday and a Saturday of 2024
HarnessDates == {Iso(2023, 12, 30), Iso(2023, 12, 31), Iso(2024, 1, 1), Iso(2024, 1, 6)}
HarnessYears == {2023, 2024, 2025}
HarnessMonths == {"Jan", "Dec", "December"}
HarnessWeekdays == {"Sat", "Mon", "Tue"}

\* the frames of at most MaxRows rows, with the default index 0, 1, ...
RECURSIVE DateLists(_)
DateLists(n) ==
  IF n = 0 THEN {<<>>}
  ELSE DateLists(n - 1)
         \cup {Append(l, d) : l \in {m \in DateLists(n - 1) : Len(m) = n - 1},
                              d \in HarnessDates}
HarnessFrames ==
  {[k \in 1..Len(l) |-> [index |-> k - 1, date |-> l[k]]] : l \in DateLists(MaxRows)}

InitFilter ==
  /\ db = EmptyDb
  /\ pc = "filter"
  /\ InitLocals

\* a client calls filter_by_time_period(df, years, months, weekdays), once
FilterByTimePeriod ==
  /\ pc = "filter"
  /\ fcall.calls = 0
  /\ \E df \in HarnessFrames, years \in SUBSET HarnessYears,
        months \in SUBSET HarnessMonths, weekdays \in SUBSET HarnessWeekdays,
        inplace \in BOOLEAN :
       LET result == filter_by_time_period(df, years, months, weekdays, inplace)
       IN fcall' = [calls |-> 1, df |-> df, years |-> years, months |-> months,
                    weekdays |-> weekdays, inplace |-> inplace,
                    raised |-> result.raised, dtype |-> result.dtype,
                    rows |-> result.rows]
  /\ UNCHANGED <<db, pc, run, faults, mainVars, loopVars, histVars, wcall, past, sinput, dcall, qcall>>

NextFilter == FilterByTimePeriod

SpecFilter == InitFilter /\ [][NextFilter]_vars

(* --------------------------------------- delete_last_activity on any store *)
\* a statement that deletes the row of the smallest id
DeleteFirstRow(rows) == {r \in rows : \E q \in rows : q.id < r.id}

\* DELETE FROM t WHERE id = (SELECT id FROM t ORDER BY id DESC LIMIT 1):
\* the row of the largest id is deleted; nothing is, in an empty table
DELETE_LAST_ROW(rows) == {r \in rows : \E q \in rows : q.id > r.id}

\* execute_query with DELETE_LAST_ROW: no effect after a sqlite3.Error
ExecuteDeleteLastRow(rows, outcome) ==
  IF outcome = "ok" THEN DELETE_LAST_ROW(rows) ELSE rows

\* execute_query with SELECT COUNT(*): one row holding the count, [] after a
\* sqlite3.Error. A result list is given as the set of its tuples.
ExecuteRowCount(rows, outcome) ==
  IF outcome = "ok" THEN {<<Cardinality(rows)>>} ELSE {}

\* get_row_count: row_count[0][0] if row_count else 0
get_row_count(rows, outcome) ==
  LET row_count == ExecuteRowCount(rows, outcome)
  IN IF row_count # {} THEN (CHOOSE t \in row_count : TRUE)[1] ELSE 0

\* The loop of delete_last_activity from table k on: the name is validated
\* (a ValueError leaves the call), a table whose count is 0 is skipped, and
\* the last row of any other is deleted. res[k] holds what sqlite does with
\* the count and with the delete of table k.
RECURSIVE DeleteLoop(_, _, _, _)
DeleteLoop(d, table_names, res, k) ==
  IF k > Len(table_names) THEN [raised |-> FALSE, db |-> d]
  ELSE IF ~validate_table(table_names[k]) THEN [raised |-> TRUE, db |-> d]
  ELSE IF get_row_count(d[table_names[k]], res[k].count) = 0
    THEN DeleteLoop(d, table_names, res, k + 1)
  ELSE DeleteLoop([d EXCEPT ![table_names[k]] = ExecuteDeleteLastRow(@, res[k].delete)],
                  table_names, res, k + 1)

delete_last_activity(d, table_names, res) == DeleteLoop(d, table_names, res, 1)

\* the default argument, and a list with a name that is no table
DefaultTables == <<"cache", "activities">>
HarnessTableLists == {DefaultTables, <<"cache", "unknown">>}

\* the store of the maintenance harness: any ids in either table
InitDelete ==
  /\ \E A \in SUBSET CheckIds, C \in SUBSET CheckIds :
       db = [EmptyDb EXCEPT !["activities"] = {[id |-> x, name |-> 0] : x \in A},
                            !["cache"] = {[id |-> x] : x \in C}]
  /\ pc = "delete"
  /\ InitLocals

\* an operator calls delete_last_activity(table_names), once
DeleteLastActivity ==
  /\ pc = "delete"
  /\ dcall.calls = 0
  /\ \E table_names \in HarnessTableLists,
        res \in [1..2 -> [count : ReadOutcomes, delete : ReadOutcomes]] :
       LET call == delete_last_activity(db, table_names, res)
       IN /\ db' = call.db
          /\ dcall' = [calls |-> 1, table_names |-> table_names, res |-> res,
                       raised |-> call.raised, before |-> db]
  /\ UNCHANGED <<pc, run, faults, mainVars, loopVars, histVars, wcall, past,
                 sinput, fcall, qcall>>

NextDelete == DeleteLastActivity

SpecDelete == InitDelete /\ [][NextDelete]_vars

(* ---------------------------------------------- execute_query on any store *)
\* The statements of the program, by kind: the table they name, and the id
\* they bind (0 when they bind none).
WriteKinds == {"INSERT_OR_IGNORE_QUERY", "INSERT_ID_TO_CACHE", "DELETE_LAST_ROW", "CLEAR_CACHE"}
ReadKinds == {"GET_IDS", "GET_ROW_COUNT"}

\* the row an insert of the harness binds
HarnessRow(table_name, id) ==
  IF table_name = "cache" THEN [id |-> id] ELSE [id |-> id, name |-> 1]

\* the tables after the statement executed and was committed
QueryEffect(d, query) ==
  CASE query.kind = "INSERT_OR_IGNORE_QUERY" ->
         [d EXCEPT ![query.table_name] =
            ExecuteInsert(@, query.table_name, HarnessRow(query.table_name, query.id), "ok")]
    [] query.kind = "INSERT_ID_TO_CACHE" ->
         [d EXCEPT !["cache"] = UpdateCacheRows(@, query.id, "ok")]
    [] query.kind = "DELETE_LAST_ROW" ->
         [d EXCEPT ![query.table_name] = ExecuteDeleteLastRow(@, "ok")]
    [] query.kind = "CLEAR_CACHE" -> [d EXCEPT !["cache"] = {}]
    [] OTHER -> d

\* cursor.fetchall() after the statement executed: the rows of a SELECT, and
\* no row after a statement that selects nothing
QueryResult(d, query) ==
  CASE query.kind = "GET_IDS" ->
         {<<x>> : x \in ExecuteSelectIds(d[query.table_name], "ok")}
    [] query.kind = "GET_ROW_COUNT" -> ExecuteRowCount(d[query.table_name], "ok")
    [] OTHER -> {}

\* an execute_query whose failed statement is committed all the same
execute_query_committed(d, query, outcome) ==
  CASE outcome = "ok" ->
         [raised |-> FALSE, returned |-> QueryResult(d, query), db |-> QueryEffect(d, query)]
    [] outcome = "sqlerr" ->
         [raised |-> FALSE, returned |-> {}, db |-> QueryEffect(d, query)]
    [] OTHER -> [raised |-> TRUE, returned |-> {}, db |-> d]

\* execute_query(query, params) on the store d: the statement is executed and
\* committed and its rows are returned; a sqlite3.Error of connect, execute,
\* commit or fetchall is logged and [] is returned, and the connection's
\* context manager has rolled the statement back; any other exception
\* (binding a value sqlite cannot hold) leaves the call.
execute_query(d, query, outcome) ==
  CASE outcome = "ok" ->
         [raised |-> FALSE, returned |-> QueryResult(d, query), db |-> QueryEffect(d, query)]
    [] outcome = "sqlerr" -> [raised |-> FALSE, returned |-> {}, db |-> d]
    [] OTHER -> [raised |-> TRUE, returned |-> {}, db |-> d]

HarnessTables == {"activities", "cache"}
HarnessQueries ==
  [kind : {"INSERT_OR_IGNORE_QUERY"}, table_name : HarnessTables, id : CheckIds]
    \cup [kind : {"INSERT_ID_TO_CACHE"}, table_name : {"cache"}, id : CheckIds]
    \cup [kind : {"DELETE_LAST_ROW", "GET_IDS", "GET_ROW_COUNT"},
          table_name : HarnessTables, id : {0}]
    \cup [kind : {"CLEAR_CACHE"}, table_name : {"cache"}, id : {0}]

\* what sqlite can do with a statement: only one that binds values can fail
\* in the binding
QueryOutcomes(query) == IF query.id # 0 THEN StmtOutcomes ELSE ReadOutcomes

InitQuery ==
  /\ \E A \in SUBSET CheckIds, C \in SUBSET CheckIds :
       db = [EmptyDb EXCEPT !["activities"] = {[id |-> x, name |-> 0] : x \in A},
                            !["cache"] = {[id |-> x] : x \in C}]
  /\ pc = "query"
  /\ InitLocals

\* a method of DatabaseManager calls execute_query, once
ExecuteQuery ==
  /\ pc = "query"
  /\ qcall.calls = 0
  /\ \E query \in HarnessQueries :
       \E outcome \in QueryOutcomes(query) :
         LET call == execute_query(db, query, outcome)
         IN /\ db' = call.db
            /\ qcall' = [calls |-> 1, query |-> query, outcome |-> outcome,
                         returned |-> call.returned, raised |-> call.raised,
                         before |-> db]
  /\ UNCHANGED <<pc, run, faults, mainVars, loopVars, histVars, wcall, past,
                 sinput, fcall, dcall>>

NextQuery == ExecuteQuery

SpecQuery == InitQuery /\ [][NextQuery]_vars

(* ================================================================ claims *)
DependentTables == {"splits", "zones", "best_efforts", "streams"}
FetchKinds == {"detail", "zones", "streams"}
CacheIds == SelectIds(db["cache"])
ActivityIds == SelectIds(db["activities"])
FilterDone == cacheRead # "none"

\* C1: the new activity ids computed in main are exactly the subsequence of the
\* listing's ids that are not in the cache id set the filter was given, in the
\* listing's order, one entry per listing entry; they are empty when every
\* listed id is in that set; and the set is the cache table's when the read
\* of the cache ids executed.
NoveltyCorrect ==
  FilterDone =>
    /\ new_activity_ids =
         SelectSeq(IdList(activities_df), LAMBDA x : x \notin cached_ids)
    /\ ((\A k \in 1..Len(activities_df) : activities_df[k].id \in cached_ids)
          => new_activity_ids = <<>>)
    /\ (cacheRead = "ok" => cached_ids = cacheAtStart)

\* C1, witness: a listing of a cached id followed by an uncached id has been
\* filtered.
NoveltyWitness ==
  /\ FilterDone
  /\ cached_ids = {1}
  /\ IdList(activities_df) = <<1, 2>>
  /\ new_activity_ids = <<2>>

\* C2: at the end of a run, an id that was claimed in the run (its update_cache
\* statement executed) and whose detail fetch failed or was empty every time
\* (so that no zones or streams fetch gave anything either) is in the cache
\* table, and no splits, zones, best_efforts or streams row was added for it.
ClaimSurvivesFailedFetches ==
  pc = "done" =>
    \A x \in claimed :
      (x \in detailFailed /\ x \notin detailOk) =>
        /\ x \in CacheIds
        /\ \A t \in DependentTables : <<t, x>> \notin written

\* C2, witness: a run has ended with a claimed id whose detail fetch failed.
ClaimSurvivesWitness ==
  /\ pc = "done"
  /\ \E x \in claimed : x \in detailFailed /\ x \notin detailOk /\ x \in CacheIds

AtFetch == pc \in {"get_detailed_activity", "get_activity_zones", "get_streams"}

Untouched(x) ==
  /\ \A k \in FetchKinds : <<k, x>> \notin fetched
  /\ \A t \in ALLOWED_TABLES : <<t, x>> \notin written

\* C4 as claimed: a run issues no fetch and writes no row for an id that was
\* in the cache table when the run began.
CachedNeverRetried == \A x \in cacheAtStart : Untouched(x)

\* C4 as amended: a run whose read of the cache ids did not fail issues no
\* fetch and writes no row for an id that was in the cache table when the run
\* began, and that id stays in the cache table.
CachedNeverRetriedIfRead ==
  \A x \in cacheAtStart :
    /\ x \in CacheIds
    /\ (cacheRead # "sqlerr" => Untouched(x))

\* C4, witness: a later run that listed a cached id has ended, its cache read
\* having executed, while it fetched the detail of another id.
CachedNeverRetriedWitness ==
  /\ pc = "done"
  /\ cacheRead = "ok"
  /\ \E x \in cacheAtStart : \E k \in 1..Len(activities_df) : activities_df[k].id = x
  /\ fetched # {}

(* ----------------------------------------------------- the writer's claims *)
LastTable == wcall.table_name
WriterReturned == wcall.calls > 0 /\ ~wcall.raised
\* the statement of row k was reached, and it executed
Reached(res, k) == \A j \in 1..(k - 1) : res[j] # "exc"
Executed(res, k) == Reached(res, k) /\ res[k] = "ok"
SameKey(t, r1, r2) == PrimaryKey(t, r1) = PrimaryKey(t, r2)

\* What a call of the writer leaves in its table, given the rows `counted`
\* (positions of the DataFrame) whose insert counts: the stored rows are all
\* still there with their values, the new rows are rows of the DataFrame, no
\* two rows share a primary key, every counted row's key is stored, and a new
\* row is the first counted row of its key.
UpsertEffect(t, before, after, df, counted) ==
  /\ before \subseteq after
  /\ \A r \in after \ before : \E k \in counted : df[k] = r
  /\ \A r1 \in after : \A r2 \in after : SameKey(t, r1, r2) => r1 = r2
  /\ \A k \in counted : \E r \in after : SameKey(t, r, df[k])
  /\ \A r \in after \ before :
       \A k \in counted :
         (SameKey(t, df[k], r) /\ \A j \in counted : SameKey(t, df[j], r) => k <= j)
           => df[k] = r

\* C5 as claimed: after every call of the writer on an allowed table, each row
\* of the DataFrame is stored if and only if no row of its primary key was
\* stored before it; a row whose key was stored changes nothing.
UpsertIffKeyAbsent ==
  WriterReturned =>
    UpsertEffect(LastTable, wcall.before, db[LastTable], wcall.df, DOMAIN wcall.df)

\* C5 as amended: the same of the rows whose INSERT statement executed; a row
\* whose statement failed, or that follows a row whose statement raised an
\* exception that is no sqlite3.Error, is not stored by the call.
UpsertIffKeyAbsentAndExecuted ==
  WriterReturned =>
    UpsertEffect(LastTable, wcall.before, db[LastTable], wcall.df,
                 {k \in DOMAIN wcall.df : Executed(wcall.res, k)})

\* C5, witness: two zones rows of one activity were inserted; the first, whose
\* key was stored with another value, changed nothing, and the second, of the
\* other zone type, was stored.
UpsertWitness ==
  /\ WriterReturned
  /\ LastTable = "zones"
  /\ Len(wcall.df) = 2
  /\ \A k \in 1..2 : wcall.res[k] = "ok"
  /\ HasKey(wcall.before, "zones", wcall.df[1])
  /\ wcall.df[1] \notin db["zones"]
  /\ wcall.df[2].zone_type # wcall.df[1].zone_type
  /\ wcall.df[2] \in db["zones"] \ wcall.before
  /\ Cardinality(db["zones"]) = 2

\* C6: a call of the writer with a table name outside ALLOWED_TABLES raises to
\* its caller, executes no statement and leaves every table as it was, whatever
\* the DataFrame, None or empty included.
AllowListEnforced ==
  [][(wcall'.calls # wcall.calls /\ wcall'.table_name \notin ALLOWED_TABLES)
       => (wcall'.raised /\ db' = db /\ faults' = faults)]_vars

\* C6, witness: the writer raised on an empty DataFrame for a table that is
\* not allowed.
AllowListWitness ==
  /\ wcall.calls > 0
  /\ wcall.raised
  /\ wcall.table_name = "users"
  /\ wcall.df = <<>>

(* ------------------------------------------- the reconciliation's claims *)
Checked == pc = "done" /\ checks = 1
Report(ids) == [emitted |-> ids # {}, ids |-> ids, count |-> Cardinality(ids)]

CheckIsDetectionOnly ==
  [][pc = "check" => (db' = db /\ fetched' = fetched)]_vars

\* C8, witness: a run's check has found ids of the activities table that are
\* not in the cache table, and they are still not in it.
CheckIsDetectionOnlyWitness ==
  /\ Checked
  /\ run > 0
  /\ warning.emitted
  /\ warning.ids = ActivityIds \ CacheIds

\* C9: every invocation of main, whatever the listing returned, has run the
\* reconciliation check exactly once, as its last store access, when it ends.
CheckRunsOnceAndLast == pc = "done" => (checks = 1 /\ lastStore = "check")

\* C10: main lets no exception out; once an exception of the per-run sequence
\* was caught, no later step of the sequence runs (after a failed
\* normalization no cache read, fetch or write; after a failed gear sync no
\* gear insert), and the reconciliation check still runs, once, before main
\* returns.
ExceptionCaughtThenChecked ==
  /\ pc # "raised"
  /\ raisedAt # "none" =>
       /\ pc \in {"check", "done"}
       /\ (pc = "done" => (checks = 1 /\ lastStore = "check"))
       /\ (raisedAt = "process_activity_data" =>
             (cacheRead = "none" /\ fetched = {} /\ written = {}))
       /\ (raisedAt = "process_gear_data" =>
             \A r \in db["gear"] : r.distance # run)

\* C10, witness: a run whose gear sync raised has ended after its check.
ExceptionCaughtWitness ==
  /\ pc = "done"
  /\ raisedAt = "process_gear_data"
  /\ checks = 1

(* ------------------------------------------------- claims across the runs *)
\* a run has ended whose listing gave the ids that the run before it was given
SameListingAgain == pc = "done" /\ run >= 2 /\ IdList(activities_df) = past.listing

InLoop ==
  pc \in {"update_cache", "get_detailed_activity", "get_activity_zones",
          "get_streams", "insert_processed_data"}
LoopEnded == new_activity_ids # <<>> /\ pc \in {"process_gear_data", "check", "done"}
\* the loop is past position k of the new ids
Passed(k) == (InLoop /\ k < i) \/ LoopEnded
LoopContinuesAfterInsertWitness ==
  /\ pc = "done"
  /\ new_activity_ids = <<1, 2>>
  /\ <<"streams", 1>> \in fetched /\ <<"splits", 1>> \notin written
  /\ 2 \in claimed /\ <<"detail", 2>> \in fetched

HasRow(t, x) == \E r \in db[t] : r.id = x
ZonesRaised(x) == <<"zones", x>> \in fetchFailed
StreamsRaised(x) == <<"streams", x>> \in fetchFailed

\* C13: once the loop has ended, an activity whose zones request raised has
\* had its streams requested, and an activity whose streams request raised has
\* had its zones requested.
ZonesAndStreamsIndependent ==
  LoopEnded =>
    \A x \in detailOk :
      /\ (ZonesRaised(x) => <<"streams", x>> \in fetched)
      /\ (StreamsRaised(x) => <<"zones", x>> \in fetched)

\* the half of C13 that the order of the two requests gives: the zones were
\* requested before the streams
StreamsFailureKeepsZones ==
  \A x \in Ids : <<"streams", x>> \in fetched => <<"zones", x>> \in fetched

\* C14: once the loop has ended, an activity with a detail payload of which
\* exactly one of the zones and the streams requests raised has the rows of
\* the entities that did not fail: a splits row and a best_efforts row are
\* stored for it.
OnlyFailingEntityMissing ==
  LoopEnded =>
    \A x \in detailOk :
      (ZonesRaised(x) # StreamsRaised(x)) =>
        /\ HasRow("splits", x)
        /\ HasRow("best_efforts", x)

\* the half of C14 that holds when the store executes every statement: after a
\* streams request that raised, the splits and best_efforts rows are stored
StreamsFailureKeepsSiblings ==
  (LoopEnded /\ faults = 0) =>
    \A x \in detailOk :
      (StreamsRaised(x) /\ ~ZonesRaised(x)) =>
        (HasRow("splits", x) /\ HasRow("best_efforts", x))

\* C15: an id whose detail request answered nothing in this run (and gave a
\* payload in no other pass of the run) stays in the cache table once claimed,
\* has no zones and no streams request issued, and gets no splits, zones,
\* best_efforts or streams row in this run; and the loop goes on: when it has ended, the
\* detail of every new id was requested.
EmptyDetailSkipped ==
  /\ \A x \in detailEmpty \ detailOk :
       /\ (x \in claimed => x \in CacheIds)
       /\ <<"zones", x>> \notin fetched
       /\ <<"streams", x>> \notin fetched
       /\ \A t \in DependentTables : <<t, x>> \notin written
  /\ (LoopEnded /\ detailEmpty # {}) =>
       \A k \in 1..Len(new_activity_ids) : <<"detail", new_activity_ids[k]>> \in fetched

\* C15, witness: the detail request of id 1 answered nothing; id 1 is in the
\* cache table, and id 2, the next new id, got its detail and its rows.
EmptyDetailWitness ==
  /\ pc = "done"
  /\ new_activity_ids = <<1, 2>>
  /\ 1 \in detailEmpty /\ 1 \notin detailOk
  /\ 1 \in claimed /\ 1 \in CacheIds
  /\ 2 \in detailOk
  /\ <<"splits", 2>> \in written

(* ------------------------------------------- the writer's rows, one by one *)
\* the row at position k of the last call is stored, or a row of its key is
KeyStored(k) == HasKey(db[LastTable], LastTable, wcall.df[k])

\* C16: after every call of the writer, whatever made the statement of one row
\* fail, every other row of the DataFrame was attempted: a row whose own
\* statement does not fail is stored, or a row of its key is.
RowFailureContained ==
  WriterReturned =>
    \A k \in DOMAIN wcall.df : wcall.res[k] = "ok" => KeyStored(k)

\* the part of C16 that execute_query gives: a statement that fails with a
\* sqlite3.Error does not keep the other rows from being inserted
SqliteFailureContained ==
  (WriterReturned /\ \A j \in DOMAIN wcall.df : wcall.res[j] # "exc") =>
    \A k \in DOMAIN wcall.df : wcall.res[k] = "ok" => KeyStored(k)

(* ------------------------------------------------ the tables over the runs *)
ListedNow == {r.id : r \in Range(activities_df)}
RunCompleted == pc = "done" /\ raisedAt = "none"

\* C17: the activities table has rows only of ids that some run's listing
\* held, and when a run has completed, every id of its listing has an
\* activities row, whether it was new or in the cache when listed.
ListedIffStored ==
  /\ ActivityIds \subseteq past.listed
  /\ RunCompleted => ListedNow \subseteq ActivityIds

\* the half of C17 that holds whatever the store does: a row's id was listed
StoredOnlyIfListed == ActivityIds \subseteq past.listed

RowsOnlyAdded ==
  [][\A t \in ALLOWED_TABLES : db[t] \subseteq db'[t]]_vars

\* C19, witness: the second run has inserted the gear with the distance it has
\* now, no statement having failed, and the gear row still holds the distance
\* of the first run; the id 1, in the cache table since the first run, is
\* still there.
RowsOnlyAddedWitness ==
  /\ pc = "done"
  /\ run = 2
  /\ raisedAt = "none"
  /\ faults = 0
  /\ <<"gear", 0>> \in fetched
  /\ db["gear"] = {[gear_id |-> "g1", distance |-> 1]}
  /\ 1 \in cacheAtStart /\ 1 \in CacheIds

\* C19, the cache: an id that was in the cache table when the run began has
\* been claimed again (the run's read of the cache ids had failed).
ClaimedAgainWitness ==
  /\ pc = "done"
  /\ \E x \in cacheAtStart : x \in claimed /\ x \in CacheIds

\* C20: in every state an id that has a cache row (CLAIMED) has an activities
\* row (LISTED): no id is claimed before it is listed.
ClaimedOnlyIfListed == CacheIds \subseteq ActivityIds

\* the order of the steps that C20 rests on: when the first claim of a run is
\* about to be made, the insert of the activities rows of the run is the last
\* store access, and each detail request follows the claim of its id
ClaimAfterInsertOfActivities ==
  /\ (pc = "update_cache" /\ i = 1) => lastStore = "insert_dataframe_to_db"
  /\ pc = "get_detailed_activity" => lastStore = "update_cache"

(* ------------------------------------------------- the end-to-end scenario *)
\* the rows of a table for the id x
RowsOf(t, x) == {r \in db[t] : r.id = x}
\* what the zones, and the streams, requests for x were answered in this run
ZonesAnswers(x) == {a[3] : a \in {b \in answers : b[1] = "zones" /\ b[2] = x}}
StreamsAnswers(x) == {a[3] : a \in {b \in answers : b[1] = "streams" /\ b[2] = x}}

\* The scenario with the ids 1 and 2 for 101 and 102: a run has ended that
\* began with the cache {1} and listed <<1, 2>>; the detail of 2 came with its
\* one best effort, its zones with no zone type, its streams without
\* heartrate; no store statement failed.
EndToEndScenario ==
  /\ pc = "done"
  /\ cacheAtStart = {1}
  /\ IdList(activities_df) = <<1, 2>>
  /\ faults = 0
  /\ 2 \in detailOk /\ 2 \notin detailFailed
  /\ ZonesAnswers(2) = {[kind |-> "ok", types |-> <<>>]}
  /\ \E a \in StreamsAnswers(2) :
       /\ StreamsAnswers(2) = {a}
       /\ a.kind = "ok"
       /\ "heartrate" \notin DOMAIN a.response

\* C21: at the end of the scenario the activities table has a new row for 2,
\* the cache table holds 2 besides 1, there is exactly one best_efforts row
\* for 2, keyed (2, name) and new, no zones row for 2, and one streams row for
\* 2 whose heartrate reads [0]; no request was issued and no row written for 1.
EndToEnd ==
  EndToEndScenario =>
    /\ <<"activities", 2>> \in written /\ HasRow("activities", 2)
    /\ CacheIds = {1, 2}
    /\ RowsOf("best_efforts", 2) = {[id |-> 2, name |-> "1k", time |-> run]}
    /\ <<"best_efforts", 2>> \in written
    /\ RowsOf("zones", 2) = {}
    /\ <<"streams", 2>> \in written
    /\ \E r \in RowsOf("streams", 2) :
         /\ RowsOf("streams", 2) = {r}
         /\ JsonLoads(r.heartrate) = <<0>>
    /\ Untouched(1)

\* C21, witness: the scenario has happened and left its rows.
EndToEndWitness ==
  /\ EndToEndScenario
  /\ CacheIds = {1, 2}
  /\ Cardinality(RowsOf("best_efforts", 2)) = 1
  /\ Cardinality(RowsOf("streams", 2)) = 1

(* --------------------------------------------------- the streams' claims *)
StreamColumns ==
  {"id", "time", "distance", "latlng", "altitude", "speed", "heartrate",
   "cadence", "watts"}
\* the column that holds the series of a remote key
ColumnOf(key) == IF key = "velocity_smooth" THEN "speed" ELSE key
\* the series of a key in a payload, if the payload has one that is not empty
HasSeries(response, key) ==
  /\ key \in DOMAIN response
  /\ "data" \in DOMAIN response[key]
  /\ response[key].data # <<>>

\* C22: process_streams of a payload that is not empty gives exactly one row,
\* with the nine columns id, time, distance, latlng, altitude, speed,
\* heartrate, cadence, watts and the id it was given; the column of each key
\* reads the key's series when the payload has one that is not empty, and the
\* placeholder [0] otherwise; the series of velocity_smooth is under speed.
StreamsRowComplete ==
  (sinput.calls > 0 /\ DOMAIN sinput.response # {}) =>
    /\ Len(streams_df) = 1
    /\ DOMAIN streams_df[1] = StreamColumns
    /\ streams_df[1].id = sinput.activity_id
    /\ \A key \in StreamKeys :
         JsonLoads(streams_df[1][ColumnOf(key)]) =
           IF HasSeries(sinput.response, key) THEN sinput.response[key].data
           ELSE <<0>>

\* C22, witness: a payload with a velocity_smooth series, an empty distance
\* series and no watts gave a row with the series under speed and [0] under
\* distance and watts.
StreamsRowWitness ==
  /\ sinput.calls > 0
  /\ HasSeries(sinput.response, "velocity_smooth")
  /\ "distance" \in DOMAIN sinput.response
  /\ "data" \in DOMAIN sinput.response["distance"]
  /\ sinput.response["distance"].data = <<>>
  /\ "watts" \notin DOMAIN sinput.response
  /\ JsonLoads(streams_df[1].speed) = <<1>>
  /\ JsonLoads(streams_df[1].distance) = <<0>>
  /\ JsonLoads(streams_df[1].watts) = <<0>>

(* ------------------------------------------------------ the empty listing *)
\* the listing of the current run gave no activity
ListedNothing == run > 0 /\ activities_df = <<>>

\* C23: a run whose listing gave nothing issues no detail, zones, streams or
\* gear request, and none of its steps changes a table.
NothingListedNothingDone ==
  [][ListedNothing' => (db' = db /\ fetched' = {} /\ written' = {})]_vars

\* C23, witness: the second run, whose listing gave nothing, has returned
\* without the reconciliation check; the rows of the first run are there.
NothingListedWitness ==
  /\ pc = "done"
  /\ run = 2
  /\ ListedNothing
  /\ checks = 0
  /\ fetched = {}
  /\ CacheIds # {}

(* ---------------------------------------------------- at most one attempt *)
\* C24 as claimed: over the runs, the detail of an id is requested at most
\* once.
DetailAtMostOnce == \A x \in Ids : past.fetches[x] <= 1

\* C24 as amended: as long as no store statement fails, the detail of an id is
\* requested at most once for each entry that the id has in one listing: at
\* most once when no listing holds the id twice, and once per entry in the run
\* that finds the id new when its listing does.
DetailOncePerEntry ==
  faults = 0 => \A x \in Ids : past.fetches[x] <= past.entries[x]

\* C24, witness: id 1 was listed, once, in both runs and id 2 twice in the
\* second; the second run has ended with one detail request for id 1 and two
\* for id 2 over the runs.
DetailOncePerEntryWitness ==
  /\ pc = "done"
  /\ run = 2
  /\ faults = 0
  /\ past.listing = <<1>>
  /\ IdList(activities_df) = <<2, 2>>
  /\ past.fetches = [x \in Ids |-> IF x = 1 THEN 1 ELSE 2]

\* C24, the single entries: id 1, listed once in each run, had its detail
\* requested once over both runs.
DetailOnceWitness ==
  /\ pc = "done"
  /\ run = 2
  /\ faults = 0
  /\ past.listing = <<1>>
  /\ IdList(activities_df) = <<1>>
  /\ past.fetches[1] = 1

(* ------------------------------------------------- one activity at a time *)
\* what has happened for the id x in this run: its claim, its requests, its
\* dependent rows
EventsOf(x) ==
  (IF x \in claimed \cup claimFailed THEN {<<"claim", x>>} ELSE {})
    \cup {e \in fetched : e[2] = x /\ e[1] \in FetchKinds}
    \cup {e \in written : e[2] = x /\ e[1] \in DependentTables}
\* the ids at the positions up to k of the new ids
Upto(k) == {new_activity_ids[j] : j \in 1..k}
\* the pass of the current id can end here: after the detail request, after
\* the zones request, after the four inserts
PassCanEnd ==
  pc \in {"get_detailed_activity", "get_activity_zones", "insert_processed_data"}

\* C25: in the loop over the new ids, nothing has happened for an id whose
\* first position is still to come; a step of the loop claims, requests and
\* writes for the id at the current position only; the position moves by one,
\* to the claim of the next id, and only from a step that ends the pass of the
\* current id.
OneActivityAtATime ==
  /\ [](InLoop =>
         \A k \in 1..Len(new_activity_ids) :
           (k > i /\ new_activity_ids[k] \notin Upto(i)) =>
             EventsOf(new_activity_ids[k]) = {})
  /\ [][InLoop =>
         /\ \A x \in Ids : x # new_activity_ids[i] => EventsOf(x)' = EventsOf(x)
         /\ i' \in {i, i + 1}
         /\ (i' = i + 1 => (PassCanEnd /\ pc' = "update_cache"))
         /\ (pc' = "update_cache" => i' = i + 1)]_vars

\* C25, witness: the loop over <<1, 2>> is about to claim id 2; id 1 has its
\* claim, its three requests and its rows, and nothing has happened for id 2.
OneActivityWitness ==
  /\ pc = "update_cache"
  /\ new_activity_ids = <<1, 2>>
  /\ i = 2
  /\ {<<"claim", 1>>, <<"detail", 1>>, <<"zones", 1>>, <<"streams", 1>>,
       <<"splits", 1>>} \subseteq EventsOf(1)
  /\ EventsOf(2) = {}

(* ------------------------------------------------- a run without failures *)
\* a run has ended in which no store statement failed
RunStored == pc = "done" /\ run > 0 /\ faults = past.faults
\* every listed id is in the cache table, and those that were not when the run
\* began were claimed and had their detail requested in this run
ListedAllClaimed ==
  /\ ListedNow \subseteq CacheIds
  /\ \A x \in ListedNow \ cacheAtStart :
       x \in claimed /\ <<"detail", x>> \in fetched

\* C26 as claimed: at the end of a run in which no store statement failed,
\* every id of the run's listing is in the cache table, the listed ids that
\* had no cache row were claimed and had their detail requested, and the check
\* emits no warning if activities minus cache was empty when the run began.
StoredRunClaimsAllListed ==
  RunStored =>
    /\ ListedAllClaimed
    /\ (past.missing = {} => ~warning.emitted)

\* C26 as amended: the same of a run that, besides, was not ended by an
\* exception before its loop over the new ids; the part about the warning
\* holds of every run in which no store statement failed.
StoredRunClaimsAllListedUnlessRaised ==
  RunStored =>
    /\ (raisedAt # "process_activity_data" => ListedAllClaimed)
    /\ (past.missing = {} => ~warning.emitted)

\* C26, witness: id 1 had an activities row and no cache row when the run
\* began; the run, in which no statement failed, listed it, claimed it and
\* requested its detail.
StoredRunWitness ==
  /\ RunStored
  /\ raisedAt = "none"
  /\ 1 \in past.missing
  /\ 1 \in ListedNow
  /\ 1 \in claimed /\ 1 \in CacheIds
  /\ <<"detail", 1>> \in fetched

\* C26, the warning: a run in which no statement failed has added activities
\* and run its check without a warning.
NoWarningWitness ==
  /\ RunStored
  /\ past.missing = {}
  /\ checks = 1
  /\ <<"activities", 1>> \in written
  /\ ~warning.emitted

(* --------------------------------------------------- the dependent rows *)
\* the ids that have a row in splits, zones, best_efforts or streams
DependentIds == UNION {SelectIds(db[t]) : t \in DependentTables}

NoFalseNegative ==
  FilterDone =>
    /\ \A x \in ListedNow : x \notin cacheAtStart => x \in Range(new_activity_ids)
    /\ cacheRead = "sqlerr" =>
         (cached_ids = {} /\ new_activity_ids = IdList(activities_df))

\* C28, witness: the read of the cache ids failed while the cache table held
\* id 1; the listing <<1, 2>> is new as a whole.
NoFalseNegativeWitness ==
  /\ cacheRead = "sqlerr"
  /\ cacheAtStart = {1}
  /\ IdList(activities_df) = <<1, 2>>
  /\ new_activity_ids = <<1, 2>>

(* ------------------------------------------------------------ the gear *)
GearRequested == <<"gear", 0>> \in fetched

\* C29: the gear is requested only in a run that has new ids, after the detail
\* of every one of them was requested and the loop has ended; the gear table
\* changes only in the gear sync of such a run, which keeps the stored rows
\* and adds only rows whose gear_id was not stored.
GearOnlyAfterNewActivities ==
  /\ [](GearRequested =>
         /\ new_activity_ids # <<>>
         /\ \A k \in 1..Len(new_activity_ids) :
              <<"detail", new_activity_ids[k]>> \in fetched
         /\ pc \in {"check", "done"})
  /\ [][db'["gear"] # db["gear"] =>
          /\ pc = "process_gear_data"
          /\ new_activity_ids # <<>>
          /\ i = Len(new_activity_ids)
          /\ db["gear"] \subseteq db'["gear"]
          /\ \A r \in db'["gear"] \ db["gear"] : ~HasKey(db["gear"], "gear", r)]_vars

\* C29, witness: the first run, with the new ids <<1, 2>>, has requested the
\* gear after both details and stored the gear row.
GearWitness ==
  /\ pc = "done"
  /\ run = 1
  /\ new_activity_ids = <<1, 2>>
  /\ GearRequested
  /\ db["gear"] = {[gear_id |-> "g1", distance |-> 1]}

\* C29, the run without new ids: the second run listed only cached ids and
\* has ended without a gear request.
NoGearWitness ==
  /\ pc = "done"
  /\ run = 2
  /\ cacheRead = "ok"
  /\ activities_df # <<>>
  /\ new_activity_ids = <<>>
  /\ ~GearRequested

(* ---------------------------------------------------------------- C30 *)
RowYear(r) == YearOf(r.date)
RowWeekday(r) == DayOfWeekAbbr(r.date)
Returned == fcall.calls > 0 /\ ~fcall.raised

\* C30: filter_by_time_period includes only the requested periods: for every
\* non-empty frame and every non-empty list years, each row of the frame
\* returned has a year that is in years, and a weekday that is in weekdays
\* when weekdays is given; when none of the requested values occurs in the
\* data, the frame returned is empty.
OnlyRequestedPeriods ==
  (Returned /\ fcall.df # <<>> /\ fcall.years # {}) =>
    \A k \in DOMAIN fcall.rows :
      /\ RowYear(fcall.rows[k]) \in fcall.years
      /\ (fcall.weekdays # {} => RowWeekday(fcall.rows[k]) \in fcall.weekdays)

\* a request for 2025 alone on a frame of 2023 and 2024 returns both rows
AbsentYearReturnsAll ==
  /\ Returned
  /\ fcall.years = {2025}
  /\ fcall.months = {} /\ fcall.weekdays = {}
  /\ Len(fcall.df) = 2
  /\ RowYear(fcall.df[1]) = 2023 /\ RowYear(fcall.df[2]) = 2024
  /\ fcall.rows = fcall.df

\* a request for the Mondays of 2023 returns the Saturday of 2023
AbsentWeekdayReturnsAll ==
  /\ Returned
  /\ fcall.years = {2023} /\ fcall.months = {} /\ fcall.weekdays = {"Mon"}
  /\ Len(fcall.rows) = 1
  /\ RowWeekday(fcall.rows[1]) = "Sat"

(* ---------------------------------------------------------------- C31 *)
IdsBefore(t) == SelectIds(dcall.before[t])
IdsAfter(t) == SelectIds(db[t])
Largest(S) == CHOOSE x \in S : \A y \in S : y <= x
WithoutLargest(S) == IF S = {} THEN {} ELSE S \ {Largest(S)}
DefaultCall == dcall.calls > 0 /\ dcall.table_names = DefaultTables
AllDeletesExecuted ==
  \A k \in 1..2 : dcall.res[k].count = "ok" /\ dcall.res[k].delete = "ok"
OrphansBefore == IdsBefore("activities") \ IdsBefore("cache")
OrphansAfter == IdsAfter("activities") \ IdsAfter("cache")

\* C31 as stated: delete_last_activity keeps the activities and cache tables
\* consistent: if both hold the same id set before the call they hold the
\* same id set after it, the largest id removed from both; an empty table is
\* left untouched; and from any state the call creates no id that is in
\* activities but not in cache.
DeleteKeepsConsistent ==
  DefaultCall =>
    /\ (IdsBefore("activities") = IdsBefore("cache")
          => /\ IdsAfter("activities") = IdsAfter("cache")
             /\ IdsAfter("cache") = WithoutLargest(IdsBefore("cache")))
    /\ \A t \in {"activities", "cache"} : dcall.before[t] = {} => db[t] = {}
    /\ OrphansAfter \subseteq OrphansBefore

\* C31, amended: when every statement of the call executes, two tables of
\* the same id set have the same id set after it, the largest id removed
\* from both; an empty table is left untouched, and no row is ever added or
\* changed; from any state, the only id the call can newly leave in
\* activities but not in cache is the largest id of cache, and when every
\* statement executes it does so exactly if that id is in activities and is
\* not the largest id of activities.
DeleteKeepsConsistentWhenExecuted ==
  DefaultCall =>
    /\ ((AllDeletesExecuted /\ IdsBefore("activities") = IdsBefore("cache"))
          => /\ IdsAfter("activities") = IdsAfter("cache")
             /\ IdsAfter("cache") = WithoutLargest(IdsBefore("cache")))
    /\ \A t \in ALLOWED_TABLES : db[t] \subseteq dcall.before[t]
    /\ OrphansAfter \ OrphansBefore \subseteq
         (IF IdsBefore("cache") = {} THEN {} ELSE {Largest(IdsBefore("cache"))})
    /\ (AllDeletesExecuted /\ IdsBefore("cache") # {} =>
          (OrphansAfter \ OrphansBefore # {}
             <=> /\ Largest(IdsBefore("cache")) \in IdsBefore("activities")
                 /\ Largest(IdsBefore("cache")) # Largest(IdsBefore("activities"))))

\* both tables hold 1, 2 and 3 and every statement executes: 3 leaves both
DeleteConsistentWitness ==
  /\ DefaultCall
  /\ AllDeletesExecuted
  /\ IdsBefore("activities") = {1, 2, 3}
  /\ IdsBefore("cache") = {1, 2, 3}
  /\ IdsAfter("activities") = {1, 2}
  /\ IdsAfter("cache") = {1, 2}

\* every statement executes, cache holds 1 and 2 and activities 1, 2 and 3:
\* id 2 is left in activities without a cache row
DeleteNewOrphanWitness ==
  /\ DefaultCall
  /\ AllDeletesExecuted
  /\ IdsBefore("cache") = {1, 2}
  /\ IdsBefore("activities") = {1, 2, 3}
  /\ OrphansAfter = {2}

(* ---------------------------------------------------------------- C32 *)
QueryFailed == qcall.calls > 0 /\ qcall.outcome = "sqlerr"
IfExecuted == execute_query(qcall.before, qcall.query, "ok")
OnEmptyTables == execute_query(EmptyDb, qcall.query, "ok")
\* what get_row_count makes of a result
RowCountOf(row_count) ==
  IF row_count # {} THEN (CHOOSE t \in row_count : TRUE)[1] ELSE 0

\* C32 as stated: execute_query never propagates a sqlite error: on such an
\* error it returns an empty list and the failed statement leaves every
\* table unchanged, so that a failed write returns what a successful write
\* returns and a failed read what the read of an empty table returns.
FailureLooksLikeSuccess ==
  QueryFailed =>
    /\ ~qcall.raised
    /\ qcall.returned = {}
    /\ db = qcall.before
    /\ (qcall.query.kind \in WriteKinds => qcall.returned = IfExecuted.returned)
    /\ (qcall.query.kind \in ReadKinds => qcall.returned = OnEmptyTables.returned)

\* C32, amended: on a sqlite error execute_query does not raise, returns an
\* empty list and leaves every table unchanged; a failed write returns what
\* a successful write returns; a failed read of ids returns what the read of
\* an empty table returns; a failed count returns an empty list where the
\* count of an empty table is the one row (0,), and get_row_count makes 0 of
\* both.
FailureLooksLikeSuccessOrEmpty ==
  QueryFailed =>
    /\ ~qcall.raised
    /\ qcall.returned = {}
    /\ db = qcall.before
    /\ (qcall.query.kind \in WriteKinds => qcall.returned = IfExecuted.returned)
    /\ (qcall.query.kind = "GET_IDS" => qcall.returned = OnEmptyTables.returned)
    /\ (qcall.query.kind = "GET_ROW_COUNT" =>
          /\ OnEmptyTables.returned = {<<0>>}
          /\ RowCountOf(qcall.returned) = RowCountOf(OnEmptyTables.returned))

\* an insert of a new activities row fails: the table is as before and the
\* call returned what the executed insert would have
FailedWriteWitness ==
  /\ QueryFailed
  /\ qcall.query.kind = "INSERT_OR_IGNORE_QUERY"
  /\ qcall.query.table_name = "activities"
  /\ qcall.query.id \notin SelectIds(qcall.before["activities"])
  /\ IfExecuted.db # qcall.before
  /\ db = qcall.before
  /\ qcall.returned = {}

\* the read of the ids of a cache table of three rows fails
FailedReadWitness ==
  /\ QueryFailed
  /\ qcall.query.kind = "GET_IDS"
  /\ qcall.query.table_name = "cache"
  /\ Cardinality(qcall.before["cache"]) = 3
  /\ IfExecuted.returned = {<<1>>, <<2>>, <<3>>}
  /\ qcall.returned = {}

\* the count of a table of two rows fails
FailedCountWitness ==
  /\ QueryFailed
  /\ qcall.query.kind = "GET_ROW_COUNT"
  /\ IfExecuted.returned = {<<2>>}
  /\ qcall.returned = {}

====
